---- MODULE Spec2Model ----
(***************************************************************************)
(* Bounded-concurrency pipeline orchestrator of ai-video-clipper.          *)
(*                                                                         *)
(*   errgroup.go   Group / LimitedGroup (semaphore channel, sync.Once      *)
(*                 error capture, cooperative cancellation, WaitGroup)     *)
(*   main.go       processVideosInBatches / processBatch /                 *)
(*                 processVideoWithConcurrency (batch and variant fan-out) *)
(*   usecases      ProcessSingleVideo (sequential variant loop)            *)
(***************************************************************************)
EXTENDS Integers, Sequences, FiniteSets, TLC

\* ------------------------------------------------------------------ bounds
MaxUnits == 4
MaxLimit == 2
MaxVideos == 7
MaxBatchSize == 3
MaxCeiling == 2
MaxVariants == 2
MaxDuration == 41
MaxClipDuration == 20
MaxPathVideos == 2
MaxSpeed == 4

\* ------------------------------------------------------------ error values
\* error values: nil, ctx.Err() after cancellation, the error returned by the
\* work function of unit i, and the errors built in main.go and the use case
Err(kind, unit) == [kind |-> kind, unit |-> unit]
Nil == Err("nil", 0)
Canceled == Err("canceled", 0)
UnitError(i) == Err("unit", i)

\* ------------------------------------------------ errgroup.go: the group
\* NewLimitedGroup(ctx, limit): WithContext(ctx) plus make(chan struct{}, limit)
NewLimitedGroup(limit) ==
  [limit |-> limit, sem |-> 0, cancelled |-> FALSE,
   errOnce |-> FALSE, err |-> Nil, wg |-> 0]

\* g.wg.Add(1) of Group.Go
GroupAdd(g) == [g EXCEPT !.wg = @ + 1]

CanAcquireNoLimit(g) == TRUE

\* case lg.sem <- struct{}{}: the send proceeds while the buffer has room
CanAcquire(g) == g.sem < g.limit

\* case <-lg.ctx.Done()
CtxDone(g) == g.cancelled

Acquire(g) == [g EXCEPT !.sem = @ + 1]

ReleaseNever(g) == g

\* defer func() { <-lg.sem }()
Release(g) == [g EXCEPT !.sem = @ - 1]

CaptureLast(g, e) ==
  IF e # Nil THEN [g EXCEPT !.err = e, !.errOnce = TRUE, !.cancelled = TRUE]
  ELSE g

\* if err := f(); err != nil { g.errOnce.Do(func() { g.err = err; g.cancel() }) }
Capture(g, e) ==
  IF e # Nil /\ ~g.errOnce
  THEN [g EXCEPT !.err = e, !.errOnce = TRUE, !.cancelled = TRUE]
  ELSE g

\* defer g.wg.Done()
GroupDone(g) == [g EXCEPT !.wg = @ - 1]

WaitReadyNoBlock(g) == TRUE

\* g.wg.Wait() returns once the counter is zero
WaitReady(g) == g.wg = 0

\* Group.Wait after wg.Wait(): g.cancel(); return g.err
WaitCancel(g) == [g EXCEPT !.cancelled = TRUE]

\* ---------------------------------------------- a LimitedGroup and its units
VARIABLES
  hg,        \* the LimitedGroup under use
  hunit,     \* unit i -> [pc, ret]: position of the goroutine started by Go
  hn,        \* number of units submitted through LimitedGroup.Go
  hpc,       \* the caller: "submit", "wait" (inside Wait), "returned"
  hret,      \* the value returned by Wait
  hfret,     \* unit i -> what its work function f returned ("none" if never run)
  horder     \* the errors handed to errOnce.Do, in the order of the calls

hvars == <<hg, hunit, hn, hpc, hret, hfret, horder>>

\* ------------------------------------- the batch run of main.go (see below)
VARIABLES
  program,      \* "group", "main" (ProcessAllVideos), "usecase", "pipeline"
  cfg,          \* Config: BatchSize, MaxConcurrentVideos, MaxConcurrentConfigs, VideoConfigs
  mpc,          \* the run: "idle", "start", "walk", "batch", "done", or how it was
                \* aborted: "noffmpeg", "noinput", "mkdirfailed", "walkfailed"
  batch,        \* the batch buffer: video ids in discovery order
  tail,         \* TRUE while processBatch runs for the remainder after the walk
  bgrp,         \* batch number -> the LimitedGroup of that processBatch call
  bresults,     \* processBatch: results[i], i the position in the batch
  batchSizes,   \* len(videoFiles) of every processBatch call so far, in order
  counts,       \* totalCount, successCount, errorCount, batchNum
  vtask,        \* video id -> [pc, ret, batch, started]: its goroutine in processBatch
  vgrp,         \* video id -> the LimitedGroup of its processVideoWithConcurrency
  ctask,        \* video id -> variant -> [pc, ret, started, err, enc]
  cresults,     \* video id -> results[i] of processVideoWithConcurrency
  uc,           \* ProcessSingleVideo of the use case: its position and locals
  warned        \* TRUE once a video has printed the "some variants failed" warning

svars == <<program, cfg, mpc, batch, tail, bgrp, bresults, batchSizes,
           counts, vtask, vgrp, ctask, cresults, uc, warned>>

\* ------------------------- one transcode pipeline invocation (see below)
VARIABLES
  pin,          \* the call: version ("main" / "ddd"), probed totalDuration, variant,
                \* and the QualityPreset and BatchSize of the global configuration
  ppc,          \* "idle", "start", "stage1", "stage2", "done", "rejected"
  pwin,         \* the window CalculateClipTimes returned: [s, e, err], in half seconds
  ptemp,        \* TRUE while the stage-1 temporary file exists on disk
  pspawn,       \* the ffmpeg processes spawned so far, in order: their stage and arguments
  pexit,        \* the exit status ("ok" / "failed") of every ffmpeg process that has exited
  pret,         \* the error the pipeline returned
  pverify,      \* what verifyOutputDuration returned (nil while it has not run)
  pout          \* the final output path: the file there now, the file the stage-2
                \* encoder left when it exited, and what the re-probe reported

pvars == <<pin, ppc, pwin, ptemp, pspawn, pexit, pret, pverify, pout>>

\* ------------------- the output and temporary paths of running tasks (see below)
VARIABLES
  tin,          \* the run: the videos of one batch (paths relative to inputDir), the
                \* variant list, MaxConcurrentVideos and MaxConcurrentConfigs
  tvgrp,        \* the LimitedGroup of processBatch
  tcgrp,        \* video -> the LimitedGroup of its processVideoWithConcurrency
  tvideo,       \* video -> "select", "run", "done": its goroutine in processBatch
  ttask         \* (video, variant) -> [pc, outputPath, tempPath, ret]

tvars == <<tin, tvgrp, tcgrp, tvideo, ttask>>

vars == <<hvars, svars, pvars, tvars>>

\* no window computed yet
NoWindow == [s |-> 0, e |-> 0, err |-> Err("nil", 0)]

\* nothing at the output path, no stage-2 encoder has exited, no re-probe
NoOutput == [file |-> "absent", left |-> "none", actualDuration |-> -1]

\* no pipeline call in progress, while another program runs
PIdle ==
  /\ pin = [version |-> "none", totalDuration |-> 0, preset |-> "", batchSize |-> 0,
            config |-> [Width |-> 0, Height |-> 0, ClipDuration |-> 0, Speed |-> 0,
                        VideoBitrate |-> 0, ClipStrategy |-> ""]]
  /\ ppc = "idle"
  /\ pwin = NoWindow
  /\ ptemp = FALSE
  /\ pspawn = <<>>
  /\ pexit = <<>>
  /\ pret = Err("nil", 0)
  /\ pverify = Err("nil", 0)
  /\ pout = NoOutput

\* no path-generating run, while another program runs
TIdle ==
  /\ tin = [videos |-> {}, configs |-> <<>>,
            MaxConcurrentVideos |-> 0, MaxConcurrentConfigs |-> 0]
  /\ tvgrp = NewLimitedGroup(0)
  /\ tcgrp = <<>>
  /\ tvideo = <<>>
  /\ ttask = <<>>

\* the LimitedGroup harness at rest, while another program runs
HIdle ==
  /\ hg = NewLimitedGroup(0)
  /\ hunit = [i \in 1..MaxUnits |-> [pc |-> "none", ret |-> Nil]]
  /\ hn = 0
  /\ hpc = "idle"
  /\ hret = Nil
  /\ hfret = [i \in 1..MaxUnits |-> "none"]
  /\ horder = <<>>

\* ------------------------------------------------- main.go: variant tasks
\* VideoConfig values: the first default variant of GetDefaultConfig and
\* malformed copies of it, one per validated field
GoodVariant ==
  [Width |-> 1008, Height |-> 1008, ClipDuration |-> 20, Speed |-> 2,
   VideoBitrate |-> 4000, ClipStrategy |-> "start_segments"]

VariantPool ==
  { GoodVariant,
    [GoodVariant EXCEPT !.Width = 0],
    [GoodVariant EXCEPT !.Height = -1],
    [GoodVariant EXCEPT !.Speed = 0],
    [GoodVariant EXCEPT !.ClipDuration = 0] }

SeqsUpTo(S, n) == UNION {[1..k -> S] : k \in 0..n}

ValidateConfigNone(config) == Nil

\* ConfigurableConfigProvider.ValidateConfig / DefaultConfigProvider.ValidateConfig
ValidateConfig(config) ==
  IF config.Width <= 0 \/ config.Height <= 0 THEN Err("invalid resolution", 0)
  ELSE IF config.Speed <= 0 THEN Err("invalid speed", 0)
  ELSE IF config.ClipDuration <= 0 THEN Err("invalid clip duration", 0)
  ELSE Nil

\* DefaultClipCalculator.CalculateClipTimes: the strategies of the switch;
\* any other identifier takes the default branch and returns an error
SupportedStrategies ==
  {"start_segments", "end_segments", "last_segments", "middle_segments"}

\* what the external tools do for one variant task: all succeed, or the first
\* of them that fails (ffprobe, MkdirAll, the stage-1 ffmpeg, the stage-2 ffmpeg)
External == {"ok", "probeFails", "mkdirFails", "stage1Fails", "stage2Fails"}

\* processVideoWithConfig and clipVideoSegment: the error returned and the
\* number of ffmpeg processes spawned
processVideoWithConfig(config, ext) ==
  IF ext = "probeFails" THEN [err |-> Err("probe", 0), enc |-> 0]
  ELSE IF config.ClipStrategy \notin SupportedStrategies
    THEN [err |-> Err("trim", 0), enc |-> 0]
  ELSE IF ext = "mkdirFails" THEN [err |-> Err("mkdir", 0), enc |-> 0]
  ELSE IF ext = "stage1Fails" THEN [err |-> Err("encode", 1), enc |-> 1]
  ELSE IF ext = "stage2Fails" THEN [err |-> Err("encode", 2), enc |-> 2]
  ELSE [err |-> Nil, enc |-> 2]

\* the body of the closure of processVideoWithConcurrency up to the result
VariantTask(config, ext) ==
  IF ValidateConfig(config) # Nil
  THEN [err |-> Err("validate", 0), enc |-> 0]
  ELSE processVideoWithConfig(config, ext)

ResultIndexShared(i, n) == n

\* i, config := i, config: every closure writes results[i] for its own i
ResultIndex(i, n) == i

TaskReturnErr(err) == err

\* return nil at the end of the variant closure (other variants go on)
TaskReturn(err) == Nil

\* processVideoWithConcurrency after g.Wait(): an error only if Wait returned one
ProcessVideoResult(waitErr) ==
  IF waitErr # Nil THEN Err("concurrent", 0) ELSE Nil

\* for _, result := range results { if result.error != nil { hasErrors = true } }
hasErrors(results) == \E i \in DOMAIN results : results[i].error # Nil

\* return nil at the end of the video closure of processBatch
BatchTaskReturn(err) == Nil

\* ------------------------------------------------ main.go: batch scheduling
BatchFullOffByOne(b, size) == Len(b) > size

\* if len(batch) >= dvp.config.BatchSize
BatchFull(b, size) == Len(b) >= size

ResetBatchKept(b) == b

\* batch = batch[:0] after processBatch has returned inside the walk
ResetBatch(b) == <<>>

HasRemainingNever(b) == FALSE

\* if len(batch) > 0 after the walk
HasRemaining(b) == Len(b) > 0

Videos == 1..MaxVideos
Variants == 1..MaxVariants
NumVariants == Len(cfg.VideoConfigs)

NoVideoTask == [pc |-> "none", ret |-> Nil, batch |-> 0, index |-> 0, started |-> 0]
NoVariantTask == [pc |-> "none", ret |-> Nil, started |-> 0, err |-> Nil, enc |-> 0]

\* ProcessSingleVideo before it is called
NoUseCase ==
  [pc |-> "idle", idx |-> 0, duration |-> 0, configs |-> <<>>,
   processedFiles |-> <<>>, errors |-> <<>>, success |-> FALSE,
   attempts |-> [j \in 1..MaxVariants |-> 0], enc |-> [j \in 1..MaxVariants |-> 0]]

\* the batch run at rest, while another program runs
SIdle ==
  /\ uc = NoUseCase
  /\ warned = FALSE
  /\ cfg = [BatchSize |-> 0, MaxConcurrentVideos |-> 0,
            MaxConcurrentConfigs |-> 0, VideoConfigs |-> <<>>]
  /\ mpc = "idle"
  /\ batch = <<>>
  /\ tail = FALSE
  /\ bgrp = <<>>
  /\ bresults = <<>>
  /\ batchSizes = <<>>
  /\ counts = [totalCount |-> 0, successCount |-> 0, errorCount |-> 0, batchNum |-> 1]
  /\ vtask = [v \in Videos |-> NoVideoTask]
  /\ vgrp = [v \in Videos |-> NewLimitedGroup(0)]
  /\ ctask = [v \in Videos |-> [j \in Variants |-> NoVariantTask]]
  /\ cresults = [v \in Videos |-> <<>>]

\* NewVideoProcessor with a loaded Config whose variants are drawn from pool;
\* main is about to check for ffmpeg
MainInitOver(pool) ==
  /\ program = "main"
  /\ cfg \in [BatchSize : 0..MaxBatchSize,
              MaxConcurrentVideos : 0..MaxCeiling,
              MaxConcurrentConfigs : 0..MaxCeiling,
              VideoConfigs : SeqsUpTo(pool, MaxVariants)]
  /\ mpc = "start"
  /\ batch = <<>>
  /\ tail = FALSE
  /\ bgrp = <<>>
  /\ bresults = <<>>
  /\ batchSizes = <<>>
  /\ counts = [totalCount |-> 0, successCount |-> 0, errorCount |-> 0, batchNum |-> 1]
  /\ vtask = [v \in Videos |-> NoVideoTask]
  /\ vgrp = [v \in Videos |-> NewLimitedGroup(0)]
  /\ ctask = [v \in Videos |-> [j \in Variants |-> NoVariantTask]]
  /\ cresults = [v \in Videos |-> <<>>]
  /\ uc = NoUseCase
  /\ warned = FALSE
  /\ HIdle
  /\ PIdle
  /\ TIdle

\* processBatch(videoFiles) up to g.Wait(): NewLimitedGroup, results :=
\* make(...), and g.Go for every video of the batch (wg.Add(1), goroutine
\* started and waiting in its select)
EnterBatch(b, isTail) ==
  /\ mpc' = "batch"
  /\ tail' = isTail
  /\ bgrp' = Append(bgrp, [NewLimitedGroup(cfg.MaxConcurrentVideos) EXCEPT !.wg = Len(b)])
  /\ bresults' = [i \in 1..Len(b) |-> [path |-> 0, error |-> Nil]]
  /\ batchSizes' = Append(batchSizes, Len(b))
  /\ vtask' = [v \in Videos |->
                IF \E i \in 1..Len(b) : b[i] = v
                THEN [NoVideoTask EXCEPT !.pc = "select", !.batch = Len(bgrp) + 1,
                        !.index = CHOOSE i \in 1..Len(b) : b[i] = v,
                        !.started = vtask[v].started]
                ELSE vtask[v]]

\* what the checks before the walk may find
StartOutcomes == {"ok", "ffmpegMissing", "inputDirMissing", "mkdirFails"}

\* main: checkFFmpeg (log.Fatal on error); ProcessAllVideos: the input
\* directory must exist and EnsureDir(outputDir) must succeed, else the
\* error is returned; then processVideosInBatches starts the walk
ProcessAllVideosStart ==
  /\ mpc = "start"
  /\ \E o \in StartOutcomes :
       mpc' = CASE o = "ffmpegMissing" -> "noffmpeg"
                [] o = "inputDirMissing" -> "noinput"
                [] o = "mkdirFails" -> "mkdirfailed"
                [] OTHER -> "walk"
  /\ UNCHANGED <<tvars, warned, uc, program, cfg, batch, tail, bgrp, bresults, batchSizes,
                 counts, vtask, vgrp, ctask, cresults, hvars, pvars>>

\* the walk callback for a video file: count it, append it, and process the
\* batch once it is full
WalkVideo ==
  /\ mpc = "walk"
  /\ counts.totalCount < MaxVideos
  /\ LET id == counts.totalCount + 1
         nb == Append(batch, id)
     IN /\ counts' = [counts EXCEPT !.totalCount = id]
        /\ batch' = nb
        /\ IF BatchFull(nb, cfg.BatchSize)
           THEN EnterBatch(nb, FALSE)
           ELSE UNCHANGED <<tvars, mpc, tail, bgrp, bresults, batchSizes, vtask>>
  /\ UNCHANGED <<tvars, warned, uc, program, cfg, vgrp, ctask, cresults, hvars, pvars>>

\* the walk callback receives an error for an entry and returns it:
\* processVideosInBatches returns without processing the buffered videos
WalkError ==
  /\ mpc = "walk"
  /\ mpc' = "walkfailed"
  /\ UNCHANGED <<tvars, warned, uc, program, cfg, batch, tail, bgrp, bresults, batchSizes,
                 counts, vtask, vgrp, ctask, cresults, hvars, pvars>>

\* filepath.Walk returns nil: process the remaining videos, if any
WalkEnd ==
  /\ mpc = "walk"
  /\ IF HasRemaining(batch)
     THEN EnterBatch(batch, TRUE)
     ELSE /\ mpc' = "done"
          /\ UNCHANGED <<tvars, tail, bgrp, bresults, batchSizes, vtask>>
  /\ UNCHANGED <<tvars, warned, uc, program, cfg, batch, counts, vgrp, ctask, cresults, hvars, pvars>>

\* the select of LimitedGroup.Go: the cases that can proceed
SelectCases(g) ==
  {c \in {"slot", "done"} : \/ c = "slot" /\ CanAcquire(g)
                            \/ c = "done" /\ CtxDone(g)}

\* the select of a video task. Case slot: it takes a slot and enters
\* ProcessVideo: GetConfigs, NewLimitedGroup for the variants, results :=
\* make(...), and g.Go for every variant (wg.Add(1), goroutine started and
\* waiting in its select). Case done: the batch group's context is cancelled,
\* it returns ctx.Err() without running; errOnce.Do; wg.Done()
VSelect(v) ==
  /\ vtask[v].pc = "select"
  /\ \E c \in SelectCases(bgrp[vtask[v].batch]) :
       IF c = "slot"
       THEN /\ bgrp' = [bgrp EXCEPT ![vtask[v].batch] = Acquire(@)]
            /\ vtask' = [vtask EXCEPT ![v].pc = "run", ![v].started = @ + 1]
            /\ vgrp' = [vgrp EXCEPT ![v] =
                  [NewLimitedGroup(cfg.MaxConcurrentConfigs) EXCEPT !.wg = NumVariants]]
            /\ ctask' = [ctask EXCEPT ![v] =
                  [j \in Variants |-> IF j <= NumVariants
                                       THEN [NoVariantTask EXCEPT !.pc = "select"]
                                       ELSE NoVariantTask]]
            /\ cresults' = [cresults EXCEPT ![v] =
                  [j \in 1..NumVariants |-> [index |-> 0, error |-> Nil]]]
       ELSE /\ vtask' = [vtask EXCEPT ![v].pc = "done", ![v].ret = Canceled]
            /\ bgrp' = [bgrp EXCEPT ![vtask[v].batch] = GroupDone(Capture(@, Canceled))]
            /\ UNCHANGED <<tvars, vgrp, ctask, cresults>>
  /\ UNCHANGED <<tvars, warned, uc, program, cfg, mpc, batch, tail, bresults, batchSizes,
                 counts, hvars, pvars>>

\* the select of a variant task. Case slot: it takes a slot and enters its
\* closure. Case done: the variant group's context is cancelled, it returns
\* ctx.Err() without running; errOnce.Do; wg.Done()
CSelect(v, j) ==
  /\ ctask[v][j].pc = "select"
  /\ \E c \in SelectCases(vgrp[v]) :
       IF c = "slot"
       THEN /\ vgrp' = [vgrp EXCEPT ![v] = Acquire(@)]
            /\ ctask' = [ctask EXCEPT ![v][j].pc = "run", ![v][j].started = @ + 1]
       ELSE /\ ctask' = [ctask EXCEPT ![v][j].pc = "done", ![v][j].ret = Canceled]
            /\ vgrp' = [vgrp EXCEPT ![v] = GroupDone(Capture(@, Canceled))]
  /\ UNCHANGED <<tvars, warned, uc, program, cfg, mpc, batch, tail, bgrp, bresults, batchSizes,
                 counts, vtask, cresults, hvars, pvars>>

\* the variant closure runs to the end of its goroutine: validate, run the
\* pipeline, record results[i] under the mutex, return; the deferred receive
\* frees the slot; errOnce.Do on a returned error; wg.Done()
CReturn(v, j) ==
  /\ ctask[v][j].pc = "run"
  /\ \E ext \in External :
       LET r == VariantTask(cfg.VideoConfigs[j], ext)
       IN /\ cresults' = [cresults EXCEPT ![v][ResultIndex(j, NumVariants)] =
                            [index |-> j, error |-> r.err]]
          /\ ctask' = [ctask EXCEPT ![v][j].pc = "done",
                                    ![v][j].ret = TaskReturn(r.err),
                                    ![v][j].err = r.err,
                                    ![v][j].enc = r.enc]
          /\ vgrp' = [vgrp EXCEPT ![v] = GroupDone(Capture(Release(@), TaskReturn(r.err)))]
  /\ UNCHANGED <<tvars, warned, uc, program, cfg, mpc, batch, tail, bgrp, bresults, batchSizes,
                 counts, vtask, hvars, pvars>>

\* processVideoWithConcurrency: g.Wait() returns; results is complete
VJoin(v) ==
  /\ vtask[v].pc = "run"
  /\ WaitReady(vgrp[v])
  /\ vgrp' = [vgrp EXCEPT ![v] = WaitCancel(@)]
  /\ vtask' = [vtask EXCEPT ![v].pc = "joined"]
  /\ UNCHANGED <<tvars, warned, uc, program, cfg, mpc, batch, tail, bgrp, bresults, batchSizes, counts,
                 ctask, cresults, hvars, pvars>>

\* processVideoWithConcurrency checks hasErrors, prints and returns, ProcessVideo
\* returns (their locals are gone), the video closure records results[i] and returns; the deferred
\* receive frees the video slot; errOnce.Do on a returned error; wg.Done()
VReturn(v) ==
  /\ vtask[v].pc = "joined"
  /\ LET err == ProcessVideoResult(vgrp[v].err)
     IN /\ bresults' = [bresults EXCEPT ![vtask[v].index] = [path |-> v, error |-> err]]
        /\ vtask' = [vtask EXCEPT ![v].pc = "done", ![v].ret = BatchTaskReturn(err)]
        /\ bgrp' = [bgrp EXCEPT ![vtask[v].batch] =
                      GroupDone(Capture(Release(@), BatchTaskReturn(err)))]
  /\ warned' = (warned \/ (vgrp[v].err = Nil /\ hasErrors(cresults[v])))
  /\ cresults' = [cresults EXCEPT ![v] = <<>>]
  /\ ctask' = [ctask EXCEPT ![v] =
                 [j \in Variants |-> [@[j] EXCEPT !.ret = Nil, !.err = Nil, !.enc = 0]]]
  /\ UNCHANGED <<tvars, uc, program, cfg, mpc, batch, tail, batchSizes, counts, vgrp, hvars, pvars>>

\* processBatch: g.Wait() returns, the results are counted, and the caller
\* adds them up; inside the walk the buffer is emptied and batchNum advances
BWaitReturn ==
  /\ mpc = "batch"
  /\ WaitReady(bgrp[Len(bgrp)])
  /\ bgrp' = [bgrp EXCEPT ![Len(bgrp)] = WaitCancel(@)]
  /\ LET failed == Cardinality({i \in DOMAIN bresults : bresults[i].error # Nil})
         success == Len(bresults) - failed
     IN counts' = [counts EXCEPT !.successCount = @ + success,
                                 !.errorCount = @ + failed,
                                 !.batchNum = IF tail THEN @ ELSE @ + 1]
  /\ bresults' = <<>>
  /\ IF tail
     THEN mpc' = "done" /\ batch' = batch
     ELSE mpc' = "walk" /\ batch' = ResetBatch(batch)
  /\ UNCHANGED <<tvars, warned, uc, program, cfg, tail, batchSizes, vtask, vgrp, ctask,
                 cresults, hvars, pvars>>

\* --------------------------- usecases: ProcessSingleVideo (layered version)
\* ProcessingConfig.validate, called by NewProcessingConfig
validate(pc) ==
  IF pc.Width <= 0 \/ pc.Height <= 0 THEN Err("invalid resolution", 0)
  ELSE IF pc.Speed <= 0 THEN Err("invalid speed", 0)
  ELSE IF pc.ClipDuration <= 0 THEN Err("invalid clip duration", 0)
  ELSE IF pc.VideoBitrate <= 0 THEN Err("invalid bitrate", 0)
  ELSE IF pc.ClipStrategy \notin SupportedStrategies THEN Err("invalid strategy", 0)
  ELSE Nil

\* ConfigRepositoryImpl.LoadProcessingConfigs: the first variant that
\* NewProcessingConfig rejects makes the whole load return (nil, error)
LoadProcessingConfigs(videoConfigs) ==
  IF \E k \in 1..Len(videoConfigs) : validate(videoConfigs[k]) # Nil
  THEN [configs |-> <<>>, err |-> Err("load", 0)]
  ELSE [configs |-> videoConfigs, err |-> Nil]

\* Video.CanClip: v.duration > clipDuration + 10
CanClip(duration, clipDuration) == duration > clipDuration + 10

\* ProcessingConfig.CalculateClipTimes, in half seconds (totalDuration and
\* clipDuration are whole seconds, so every value below is an integer)
CalculateClipTimes(pc, totalDuration) ==
  LET total == 2 * totalDuration
      clip == 2 * pc.ClipDuration
      w == CASE pc.ClipStrategy = "start_segments" ->
                  [s |-> 10, e |-> IF 10 + clip > total THEN total ELSE 10 + clip]
             [] pc.ClipStrategy = "end_segments" ->
                  [s |-> IF total - 10 - clip < 0 THEN 0 ELSE total - 10 - clip,
                   e |-> total - 10]
             [] pc.ClipStrategy = "middle_segments" ->
                  LET m == totalDuration
                      s0 == m - pc.ClipDuration
                      e0 == m + pc.ClipDuration
                      s1 == IF s0 < 0 THEN 0 ELSE s0
                      e1 == IF s0 < 0 THEN clip ELSE e0
                  IN [s |-> IF e1 > total THEN total - clip ELSE s1,
                      e |-> IF e1 > total THEN total ELSE e1]
             [] pc.ClipStrategy = "last_segments" ->
                  [s |-> IF total - clip < 0 THEN 0 ELSE total - clip, e |-> total]
             [] OTHER -> [s |-> 0, e |-> 0]
  IN IF pc.ClipStrategy \notin SupportedStrategies
     THEN [s |-> 0, e |-> 0, err |-> Err("trim", 0)]
     ELSE IF w.s >= w.e THEN [s |-> 0, e |-> 0, err |-> Err("trim", 0)]
     ELSE [s |-> w.s, e |-> w.e, err |-> Nil]

\* VideoRepositoryImpl.ProcessVideo: the error returned and the number of
\* ffmpeg processes spawned
RepoProcessVideo(pc, totalDuration, ext) ==
  IF CalculateClipTimes(pc, totalDuration).err # Nil
  THEN [err |-> Err("trim", 0), enc |-> 0]
  ELSE IF ext = "stage1Fails" THEN [err |-> Err("encode", 1), enc |-> 1]
  ELSE IF ext = "stage2Fails" THEN [err |-> Err("encode", 2), enc |-> 2]
  ELSE [err |-> Nil, enc |-> 2]

\* one pass of the loop body of ProcessSingleVideo
LoopBody(pc, totalDuration, ext) ==
  IF ~CanClip(totalDuration, pc.ClipDuration)
  THEN [err |-> Err("too short", 0), enc |-> 0]
  ELSE IF ext = "mkdirFails" THEN [err |-> Err("mkdir", 0), enc |-> 0]
  ELSE RepoProcessVideo(pc, totalDuration, ext)

\* durations ffprobe may report, in seconds
Durations == {0, 12, 40}

UseCaseInit ==
  /\ program = "usecase"
  /\ cfg \in [BatchSize : {0}, MaxConcurrentVideos : {0}, MaxConcurrentConfigs : {0},
              VideoConfigs : SeqsUpTo(VariantPool, MaxVariants)]
  /\ mpc = "idle"
  /\ batch = <<>>
  /\ tail = FALSE
  /\ bgrp = <<>>
  /\ bresults = <<>>
  /\ batchSizes = <<>>
  /\ counts = [totalCount |-> 0, successCount |-> 0, errorCount |-> 0, batchNum |-> 1]
  /\ vtask = [v \in Videos |-> NoVideoTask]
  /\ vgrp = [v \in Videos |-> NewLimitedGroup(0)]
  /\ ctask = [v \in Videos |-> [j \in Variants |-> NoVariantTask]]
  /\ cresults = [v \in Videos |-> <<>>]
  /\ uc = [NoUseCase EXCEPT !.pc = "start"]
  /\ warned = FALSE
  /\ HIdle
  /\ PIdle
  /\ TIdle

\* ProcessSingleVideo up to the loop: NewVideo, GetVideoDuration, SetDuration,
\* LoadProcessingConfigs; each failure returns a response with Success false
UCStart ==
  /\ uc.pc = "start"
  /\ \E ext \in {"ok", "probeFails"}, d \in Durations :
       LET loaded == LoadProcessingConfigs(cfg.VideoConfigs)
       IN IF ext = "probeFails"
          THEN uc' = [uc EXCEPT !.pc = "done", !.errors = <<Err("probe", 0)>>]
          ELSE IF d <= 0
          THEN uc' = [uc EXCEPT !.pc = "done", !.errors = <<Err("duration", 0)>>]
          ELSE IF loaded.err # Nil
          THEN uc' = [uc EXCEPT !.pc = "done", !.duration = d, !.errors = <<loaded.err>>]
          ELSE uc' = [uc EXCEPT !.pc = "loop", !.duration = d, !.idx = 1,
                                !.configs = loaded.configs]
  /\ UNCHANGED <<tvars, warned, hvars, pvars, program, cfg, mpc, batch, tail, bgrp, bresults, batchSizes,
                 counts, vtask, vgrp, ctask, cresults>>

\* for _, config := range configs: one variant, its error appended to errors
\* (continue) or its output appended to processedFiles
UCVariant ==
  /\ uc.pc = "loop"
  /\ uc.idx <= Len(uc.configs)
  /\ \E ext \in External \ {"probeFails"} :
       LET r == LoopBody(uc.configs[uc.idx], uc.duration, ext)
       IN uc' = [uc EXCEPT !.idx = @ + 1,
                           !.attempts[uc.idx] = @ + 1,
                           !.enc[uc.idx] = @ + r.enc,
                           !.errors = IF r.err # Nil THEN Append(@, r.err) ELSE @,
                           !.processedFiles = IF r.err = Nil THEN Append(@, uc.idx) ELSE @]
  /\ UNCHANGED <<tvars, warned, hvars, pvars, program, cfg, mpc, batch, tail, bgrp, bresults, batchSizes,
                 counts, vtask, vgrp, ctask, cresults>>

\* after the loop: success := len(processedFiles) > 0 and the response
UCRespond ==
  /\ uc.pc = "loop"
  /\ uc.idx > Len(uc.configs)
  /\ uc' = [uc EXCEPT !.pc = "done", !.success = Len(uc.processedFiles) > 0]
  /\ UNCHANGED <<tvars, warned, hvars, pvars, program, cfg, mpc, batch, tail, bgrp, bresults, batchSizes,
                 counts, vtask, vgrp, ctask, cresults>>

UseCaseNext ==
  \/ UCStart
  \/ UCVariant
  \/ UCRespond

MainNext ==
  \/ ProcessAllVideosStart
  \/ WalkVideo
  \/ WalkError
  \/ WalkEnd
  \/ BWaitReturn
  \/ \E v \in Videos : VSelect(v)
  \/ \E v \in Videos : VJoin(v)
  \/ \E v \in Videos : VReturn(v)
  \/ \E v \in Videos, j \in Variants : CSelect(v, j)
  \/ \E v \in Videos, j \in Variants : CReturn(v, j)

\* the configurations of the batch run: well-formed and malformed variants
MainInit == MainInitOver(VariantPool)

\* the batch run when every external call returns and the Go scheduler
\* keeps running goroutines: as long as some step of the run is possible,
\* a step is eventually taken (ffprobe and ffmpeg calls are inside CReturn,
\* the directory walk is finite)
SpecMainFair ==
  /\ MainInitOver({GoodVariant})
  /\ [][MainNext]_vars
  /\ WF_vars(MainNext)

Init == MainInit \/ UseCaseInit

Next == MainNext \/ UseCaseNext

Spec == Init /\ [][Next]_vars

\* ----------------------------------- the transcode pipeline, both versions
DefaultCalculateClipTimesLate(totalDuration, config) ==
  [s |-> 2 * totalDuration + 10 - 2 * config.ClipDuration,
   e |-> 2 * totalDuration + 10, err |-> Nil]

DefaultCalculateClipTimesFallback(totalDuration, config) ==
  [s |-> 10, e |-> 10 + 2 * config.ClipDuration, err |-> Nil]

\* DefaultClipCalculator.CalculateClipTimes of main.go, in half seconds
\* (totalDuration and ClipDuration are whole seconds, so every value below,
\* the halves availableDuration/2 and ClipDuration/2 included, is an integer)
DefaultCalculateClipTimes(totalDuration, config) ==
  LET total == 2 * totalDuration
      clip == 2 * config.ClipDuration
      availableStart == 10
      availableEnd == total - 10
      availableDuration == availableEnd - availableStart
      middlePoint == availableStart + availableDuration \div 2
  IN CASE config.ClipStrategy = "start_segments" ->
            [s |-> 10, e |-> IF 10 + clip > total THEN total ELSE 10 + clip, err |-> Nil]
       [] config.ClipStrategy \in {"end_segments", "last_segments"} ->
            [s |-> IF total - 10 - clip < 0 THEN 0 ELSE total - 10 - clip,
             e |-> total - 10, err |-> Nil]
       [] config.ClipStrategy = "middle_segments" ->
            IF availableDuration < clip
            THEN [s |-> availableStart, e |-> availableEnd, err |-> Nil]
            ELSE [s |-> middlePoint - clip \div 2,
                  e |-> middlePoint - clip \div 2 + clip, err |-> Nil]
       [] OTHER -> [s |-> 0, e |-> 0, err |-> Err("trim", 0)]

\* globalConfig.QualityPreset values: the three tiers, none, and an unknown name
PresetNames == {"fast", "high", "ultra", "", "medium"}

getOptimalQualityPresetFast(name) ==
  CASE name = "fast" -> "fast" [] name = "high" -> "high"
    [] name = "ultra" -> "ultra" [] OTHER -> "fast"

\* VideoRepositoryImpl.getOptimalQualityPreset
getOptimalQualityPreset(name) ==
  CASE name = "fast" -> "fast" [] name = "high" -> "high"
    [] name = "ultra" -> "ultra" [] OTHER -> "high"

getVideoQualityParamsDrift(preset, bitrate) ==
  [Preset |-> "slow", CRF |-> 20 + Len(pspawn), BFrames |-> 8, RefFrames |-> 5,
   MEMethod |-> "umh", Subme |-> 8, TrellisME |-> 2,
   PsyRD |-> "1.0:0.1", PsyTrellis |-> "0.2"]

\* VideoRepositoryImpl.getVideoQualityParams (the fields that differ between
\* tiers; Profile, Level, Keyint, KeyintMin, ScThreshold, Deblock and the
\* flags are the same in all three); the default case returns the high tier
getVideoQualityParams(preset, bitrate) ==
  CASE preset = "fast" ->
         [Preset |-> "fast", CRF |-> 23, BFrames |-> 3, RefFrames |-> 3,
          MEMethod |-> "hex", Subme |-> 6, TrellisME |-> 1,
          PsyRD |-> "1.0:0.0", PsyTrellis |-> "0.0"]
    [] preset = "ultra" ->
         [Preset |-> "veryslow", CRF |-> 18, BFrames |-> 16, RefFrames |-> 8,
          MEMethod |-> "tesa", Subme |-> 10, TrellisME |-> 2,
          PsyRD |-> "1.0:0.15", PsyTrellis |-> "0.25"]
    [] OTHER ->
         [Preset |-> "slow", CRF |-> 20, BFrames |-> 8, RefFrames |-> 5,
          MEMethod |-> "umh", Subme |-> 8, TrellisME |-> 2,
          PsyRD |-> "1.0:0.1", PsyTrellis |-> "0.2"]

\* VideoRepositoryImpl.buildVideoQualityArgs: the rate-control arguments
buildVideoQualityArgs(params, bitrate, useCRF) ==
  IF useCRF
  THEN [preset |-> params.Preset, crf |-> params.CRF,
        maxrate |-> (bitrate * 15) \div 10, bufsize |-> bitrate * 2]
  ELSE [preset |-> params.Preset, bv |-> bitrate,
        maxrate |-> (bitrate * 12) \div 10, bufsize |-> bitrate * 2]

\* the rate-control arguments of the two ffmpeg commands, per version:
\* clipAndScale / applySpeed of main.go build them inline, those of the
\* repository pass useCRF = true to buildVideoQualityArgs in both stages
StageArgs(version, stage, config, preset) ==
  IF version = "main"
  THEN IF stage = 1
       THEN [preset |-> "medium", bv |-> config.VideoBitrate,
             maxrate |-> (config.VideoBitrate * 12) \div 10,
             bufsize |-> config.VideoBitrate * 2]
       ELSE [preset |-> "slow", bv |-> config.VideoBitrate,
             maxrate |-> (config.VideoBitrate * 125) \div 100,
             bufsize |-> config.VideoBitrate * 2]
  ELSE buildVideoQualityArgs(
         getVideoQualityParams(getOptimalQualityPreset(preset), config.VideoBitrate),
         config.VideoBitrate, TRUE)

\* the variants a pipeline may be called with: whole-second clip lengths up
\* to MaxClipDuration (0 is malformed), every strategy and one unknown one
Strategies == SupportedStrategies \cup {"diagonal_segments"}
Bitrates == {0, 2501, 4000}
PipelineConfigs ==
  {[GoodVariant EXCEPT !.ClipDuration = c, !.ClipStrategy = st, !.VideoBitrate = b] :
     c \in 0..MaxClipDuration, st \in Strategies, b \in Bitrates}

\* DefaultVideoProcessor.generateVideoFilter: the operations of the -vf
\* chain: scale and crop for a square target, a plain scale otherwise
generateVideoFilter(config) ==
  IF config.Width = config.Height THEN <<"scale", "crop">> ELSE <<"scale">>

\* VideoRepositoryImpl.generateVideoFilter: scale and pad, whatever the target
RepoGenerateVideoFilter(config) == <<"scale", "pad">>

\* applySpeed, both versions: "atempo=" followed by the speed, one operation
\* (the factors of the -filter:a / -af chain; speeds are whole numbers here, which
\* "%.1f" and "%.2f" print exactly)
audioFilter(config) == <<config.Speed>>

\* the filters of the two ffmpeg commands: -vf in stage 1, the audio filter
\* in stage 2
StageFilters(version, stage, config) ==
  IF stage = 1
  THEN [vf |-> IF version = "main" THEN generateVideoFilter(config)
               ELSE RepoGenerateVideoFilter(config)]
  ELSE [af |-> audioFilter(config)]

\* the ffmpeg process of one stage: exec.Command("ffmpeg", args...)
\* (the repository resolves its quality bundle anew in each stage)
Spawn(stage) ==
  IF pin.version = "main"
  THEN [stage |-> stage, args |-> StageArgs(pin.version, stage, pin.config, pin.preset),
        filters |-> StageFilters(pin.version, stage, pin.config)]
  ELSE [stage |-> stage,
        bundle |-> getVideoQualityParams(getOptimalQualityPreset(pin.preset),
                                         pin.config.VideoBitrate),
        args |-> StageArgs(pin.version, stage, pin.config, pin.preset),
        filters |-> StageFilters(pin.version, stage, pin.config)]

\* what ffprobe may report for the final output: a failure (-1) or a
\* duration in half seconds
Reprobes == {-1, 10, 19, 20, 21, 40}

\* verifyOutputDuration: expectedDuration 10.0 and tolerance 0.5, in half seconds
verifyOutputDuration(actualDuration) ==
  IF actualDuration < 0 THEN Err("reprobe", 0)
  ELSE IF actualDuration < 20 - 1 \/ actualDuration > 20 + 1 THEN Err("duration", 0)
  ELSE Nil

clipVideoSegmentReturnStrict(verifyErr) == verifyErr

\* clipVideoSegment after stage 2: the error of verifyOutputDuration is only
\* printed as a warning, then return nil
clipVideoSegmentReturn(verifyErr) == Nil

\* BatchSize values of the global configuration
BatchSizes == {5, 20, 60}

\* what an encoder can leave at its output path when it exits
OutputFiles == {"absent", "empty", "written"}

OutputAfterFailureRemoved(left) == "absent"

\* the failure branch after applySpeed: os.Remove(tempPath) and return err;
\* nothing touches outputPath, the file stays as the encoder left it
OutputAfterFailure(left) == left

Stage1FailedIgnored(status) == FALSE

\* if err := clipAndScale(...); err != nil { return err }
Stage1Failed(status) == status # "ok"

\* a variant task of main.go (version "main") or NewProcessingConfig,
\* SetDuration and VideoRepositoryImpl.ProcessVideo (version "ddd") is about
\* to run for a video whose probed duration is totalDuration seconds
PipelineInit ==
  /\ program = "pipeline"
  /\ \E v \in {"main", "ddd"}, d \in 0..MaxDuration, c \in PipelineConfigs :
       \E q \in IF v = "main" THEN {""} ELSE PresetNames :
         \E n \in IF v = "main" \/ q # "" THEN {20} ELSE BatchSizes :
           pin = [version |-> v, totalDuration |-> d, preset |-> q,
                  batchSize |-> n, config |-> c]
  /\ ppc = "start"
  /\ pwin = NoWindow
  /\ ptemp = FALSE
  /\ pspawn = <<>>
  /\ pexit = <<>>
  /\ pret = Nil
  /\ pverify = Nil
  /\ pout = NoOutput
  /\ SIdle
  /\ HIdle
  /\ TIdle

\* main.go: ValidateConfig, GetVideoDuration, CalculateClipTimes,
\* GenerateOutputPath, EnsureDir, then clipVideoSegment up to the start of
\* the stage-1 encoder
PStartMain ==
  /\ ppc = "start"
  /\ pin.version = "main"
  /\ \E ext \in {"ok", "probeFails", "mkdirFails"} :
       LET w == DefaultCalculateClipTimes(pin.totalDuration, pin.config)
       IN IF ValidateConfig(pin.config) # Nil
          THEN /\ ppc' = "done" /\ pret' = Err("validate", 0)
               /\ UNCHANGED <<tvars, pwin, pspawn>>
          ELSE IF ext = "probeFails"
          THEN /\ ppc' = "done" /\ pret' = Err("probe", 0)
               /\ UNCHANGED <<tvars, pwin, pspawn>>
          ELSE IF w.err # Nil
          THEN /\ ppc' = "done" /\ pret' = Err("trim", 0) /\ pwin' = w
               /\ UNCHANGED pspawn
          ELSE IF ext = "mkdirFails"
          THEN /\ ppc' = "done" /\ pret' = Err("mkdir", 0) /\ pwin' = w
               /\ UNCHANGED pspawn
          ELSE /\ ppc' = "stage1" /\ pwin' = w
               /\ pspawn' = Append(pspawn, Spawn(1))
               /\ UNCHANGED pret
  /\ UNCHANGED <<tvars, pin, ptemp, pexit, pverify, pout, hvars, svars>>

\* layered version: NewProcessingConfig and Video.SetDuration reject what
\* they do not accept; ProcessVideo computes the window and starts stage 1
PStartRepo ==
  /\ ppc = "start"
  /\ pin.version = "ddd"
  /\ LET w == CalculateClipTimes(pin.config, pin.totalDuration)
     IN IF validate(pin.config) # Nil \/ pin.totalDuration <= 0
        THEN /\ ppc' = "rejected" /\ pret' = Err("load", 0)
             /\ UNCHANGED <<tvars, pwin, pspawn>>
        ELSE IF w.err # Nil
        THEN /\ ppc' = "done" /\ pret' = Err("trim", 0) /\ pwin' = w
             /\ UNCHANGED pspawn
        ELSE /\ ppc' = "stage1" /\ pwin' = w
             /\ pspawn' = Append(pspawn, Spawn(1))
             /\ UNCHANGED pret
  /\ UNCHANGED <<tvars, pin, ptemp, pexit, pverify, pout, hvars, svars>>

\* the running stage-1 encoder creates its output file ("-y", tempPath)
PEncoderWrites ==
  /\ ppc = "stage1"
  /\ ~ptemp
  /\ ptemp' = TRUE
  /\ UNCHANGED <<tvars, pin, ppc, pwin, pspawn, pexit, pret, pverify, pout, hvars, svars>>

\* the stage-1 encoder exits: on failure the pipeline returns the error (the
\* temporary file stays as the encoder left it), on success applySpeed
\* starts the stage-2 encoder on the temporary file
PStage1Exit ==
  /\ ppc = "stage1"
  /\ \E status \in {"ok", "failed"} :
       /\ pexit' = Append(pexit, status)
       /\ IF Stage1Failed(status)
          THEN /\ ppc' = "done" /\ pret' = Err("encode", 1)
               /\ UNCHANGED <<tvars, ptemp, pspawn>>
          ELSE /\ ppc' = "stage2"
               /\ ptemp' = IF status = "ok" THEN TRUE ELSE ptemp
               /\ pspawn' = Append(pspawn, Spawn(2))
               /\ UNCHANGED pret
  /\ UNCHANGED <<tvars, pin, pwin, pverify, pout, hvars, svars>>

\* the stage-2 encoder exits: os.Remove(tempPath) on both paths, then the
\* error or, in main.go, verifyOutputDuration on the re-probed output. The
\* encoder leaves a file with streams, an empty file or no file at the output
\* path, whatever its exit status; ffprobe reports a duration only for a
\* file with streams
PStage2Exit ==
  /\ ppc = "stage2"
  /\ \E status \in {"ok", "failed"}, left \in OutputFiles :
       /\ pexit' = Append(pexit, status)
       /\ IF status # "ok"
          THEN /\ pret' = Err("encode", 2)
               /\ pout' = [file |-> OutputAfterFailure(left), left |-> left,
                           actualDuration |-> -1]
               /\ UNCHANGED pverify
          ELSE IF pin.version = "main"
          THEN \E actualDuration \in IF left = "written" THEN Reprobes ELSE {-1} :
                 /\ pverify' = verifyOutputDuration(actualDuration)
                 /\ pret' = clipVideoSegmentReturn(verifyOutputDuration(actualDuration))
                 /\ pout' = [file |-> left, left |-> left,
                             actualDuration |-> actualDuration]
          ELSE /\ pret' = Nil
               /\ pout' = [file |-> left, left |-> left, actualDuration |-> -1]
               /\ UNCHANGED pverify
  /\ ptemp' = FALSE
  /\ ppc' = "done"
  /\ UNCHANGED <<tvars, pin, pwin, pspawn, hvars, svars>>

PipelineNext ==
  \/ PStartMain
  \/ PStartRepo
  \/ PEncoderWrites
  \/ PStage1Exit
  \/ PStage2Exit

SpecPipeline == PipelineInit /\ [][PipelineNext]_vars

\* target shapes and speeds a configuration file can give a variant
FilterConfigs ==
  {[GoodVariant EXCEPT !.Width = w, !.Height = h, !.Speed = sp] :
     w \in {720, 1008}, h \in {1008, 1280}, sp \in 1..MaxSpeed}

\* the pipeline called for variants of several shapes and speeds
FiltersInit ==
  /\ program = "pipeline"
  /\ \E v \in {"main", "ddd"}, d \in Durations, c \in FilterConfigs :
       pin = [version |-> v, totalDuration |-> d, preset |-> "",
              batchSize |-> 20, config |-> c]
  /\ ppc = "start"
  /\ pwin = NoWindow
  /\ ptemp = FALSE
  /\ pspawn = <<>>
  /\ pexit = <<>>
  /\ pret = Nil
  /\ pverify = Nil
  /\ pout = NoOutput
  /\ SIdle
  /\ HIdle
  /\ TIdle

SpecFilters == FiltersInit /\ [][PipelineNext]_vars

\* the same pipeline when nothing bounds the encoder's run time: the code
\* waits for the process with cmd.CombinedOutput() / cmd.Run() and sets no
\* timeout (exec.Command, or CommandContext with context.Background()), so
\* only the steps of the program itself are certain to happen
SpecPipelineHang ==
  PipelineInit /\ [][PipelineNext]_vars /\ WF_vars(PStartMain) /\ WF_vars(PStartRepo)

\* ------------------------------------------------- claims on the pipeline
SpawnsOfStage(k) == {i \in DOMAIN pspawn : pspawn[i].stage = k}

\* C11: in one pipeline invocation each stage's encoder is spawned at most
\* once; stage 2 is spawned only after the stage-1 process has exited with
\* success, never after it failed; a call that returns nil has spawned the
\* encoder exactly twice, stage 1 then stage 2
C11_StagesSequential ==
  /\ Cardinality(SpawnsOfStage(1)) <= 1
  /\ Cardinality(SpawnsOfStage(2)) <= 1
  /\ \A i \in SpawnsOfStage(2) :
       /\ i = 2 /\ pspawn[1].stage = 1
       /\ Len(pexit) >= 1 /\ pexit[1] = "ok"
  /\ (Len(pexit) >= 1 /\ pexit[1] = "failed") => SpawnsOfStage(2) = {}
  /\ (ppc = "done" /\ pret = Nil) =>
       /\ Len(pspawn) = 2
       /\ pspawn[1].stage = 1 /\ pspawn[2].stage = 2
       /\ pexit = <<"ok", "ok">>

\* C11 witness: a call of the layered version returned nil after both stages
C11_Witness ==
  /\ pin.version = "ddd"
  /\ ppc = "done"
  /\ pret = Nil
  /\ Len(pspawn) = 2
  /\ pexit = <<"ok", "ok">>

\* C12 (as claimed): when the pipeline has returned, on whichever path, the
\* stage-1 temporary file does not exist
C12_TempRemovedOnReturn ==
  ppc = "done" => ~ptemp

\* the four strategy identifiers the claims name
RecognisedStrategies ==
  {"start_segments", "end_segments", "last_segments", "middle_segments"}

\* the call has passed its trim calculator: pwin holds what it returned
WindowComputed ==
  \/ ppc \in {"stage1", "stage2"}
  \/ ppc = "done" /\ pret.kind \notin {"validate", "probe"}

\* 0 <= start < end <= totalDuration, in half seconds
WindowInside(w, totalDuration) ==
  0 <= w.s /\ w.s < w.e /\ w.e <= 2 * totalDuration

\* C13: for totalDuration > 10 and 1 <= clipDuration < totalDuration - 10,
\* each of the four strategies yields, without error, a window with
\* 0 <= start < end <= totalDuration, in the calculator of either version
C13_WindowInsideWhenLongEnough ==
  (/\ WindowComputed
   /\ pin.config.ClipStrategy \in RecognisedStrategies
   /\ pin.totalDuration > 10
   /\ pin.config.ClipDuration >= 1
   /\ pin.config.ClipDuration < pin.totalDuration - 10)
  => (pwin.err = Nil /\ WindowInside(pwin, pin.totalDuration))

\* C13 witness: the layered calculator returned [20 s, 40 s] for
\* last_segments on a 40 s video with a 20 s clip
C13_Witness ==
  /\ WindowComputed
  /\ pin.version = "ddd"
  /\ pin.config.ClipStrategy = "last_segments"
  /\ pin.totalDuration = 40
  /\ pin.config.ClipDuration = 20
  /\ pwin = [s |-> 40, e |-> 80, err |-> Nil]

\* C14 (as claimed): for totalDuration >= 0, clipDuration >= 1 and a
\* recognised strategy the calculator returns an error or a window with
\* 0 <= start < end <= totalDuration
C14_ErrorOrWindowInside ==
  (/\ WindowComputed
   /\ pin.config.ClipStrategy \in RecognisedStrategies
   /\ pin.totalDuration >= 0
   /\ pin.config.ClipDuration >= 1)
  => (pwin.err # Nil \/ WindowInside(pwin, pin.totalDuration))

\* C15 (as claimed): middle_segments returns a window of length clipDuration
\* centred in [5, totalDuration-5] when totalDuration - 10 >= clipDuration,
\* and exactly [5, totalDuration-5] otherwise
C15_MiddleCentred ==
  (WindowComputed /\ pin.config.ClipStrategy = "middle_segments") =>
    IF pin.totalDuration - 10 >= pin.config.ClipDuration
    THEN /\ pwin.err = Nil
         /\ pwin.e - pwin.s = 2 * pin.config.ClipDuration
         /\ pwin.s - 10 = (2 * pin.totalDuration - 10) - pwin.e
    ELSE pwin = [s |-> 10, e |-> 2 * pin.totalDuration - 10, err |-> Nil]

Min(a, b) == IF a < b THEN a ELSE b
Max(a, b) == IF a > b THEN a ELSE b

\* C16 (as claimed): start_segments returns [5, min(5+clip, total)];
\* end_segments and last_segments both return [max(0, total-5-clip), total-5]
C16_StartAndEndWindows ==
  WindowComputed =>
    /\ pin.config.ClipStrategy = "start_segments" =>
         pwin = [s |-> 10,
                 e |-> Min(10 + 2 * pin.config.ClipDuration, 2 * pin.totalDuration),
                 err |-> Nil]
    /\ pin.config.ClipStrategy \in {"end_segments", "last_segments"} =>
         pwin = [s |-> Max(0, 2 * pin.totalDuration - 10 - 2 * pin.config.ClipDuration),
                 e |-> 2 * pin.totalDuration - 10,
                 err |-> Nil]

\* C17: for a strategy identifier outside the four recognised ones the trim
\* calculator returns an error and no window (main.go: CalculateClipTimes;
\* layered version: NewProcessingConfig already rejects the variant), and no
\* encoder process is ever spawned for that variant
C17_UnknownStrategyRejected ==
  pin.config.ClipStrategy \notin RecognisedStrategies =>
    /\ pspawn = <<>>
    /\ ppc \notin {"stage1", "stage2"}
    /\ WindowComputed => (pwin.err # Nil /\ pwin.s = 0 /\ pwin.e = 0)
    /\ DefaultCalculateClipTimes(pin.totalDuration, pin.config).err # Nil
    /\ CalculateClipTimes(pin.config, pin.totalDuration).err # Nil
    /\ (ppc \in {"done", "rejected"}) => pret # Nil

\* C17 witness: main.go's calculator has returned its error for the unknown
\* strategy of an otherwise well-formed variant, and the call has returned
C17_Witness ==
  /\ pin.version = "main"
  /\ pin.config.ClipStrategy = "diagonal_segments"
  /\ pin.config.ClipDuration = 20
  /\ pin.totalDuration = 40
  /\ ppc = "done"
  /\ pret = Err("trim", 0)
  /\ pwin.err # Nil
  /\ pspawn = <<>>

\* what the calculator of the other version returns for the same call
OtherCalculator ==
  IF pin.version = "main"
  THEN CalculateClipTimes(pin.config, pin.totalDuration)
  ELSE DefaultCalculateClipTimes(pin.totalDuration, pin.config)

\* C18 (as claimed): for every totalDuration, clipDuration and strategy the
\* two calculators return the same window, or both return an error
C18_CalculatorsAgree ==
  WindowComputed =>
    \/ pwin.err # Nil /\ OtherCalculator.err # Nil
    \/ /\ pwin.err = Nil /\ OtherCalculator.err = Nil
       /\ pwin.s = OtherCalculator.s /\ pwin.e = OtherCalculator.e

C20_BitrateThenCRF ==
  \A i \in DOMAIN pspawn :
    LET given == DOMAIN pspawn[i].args
    IN IF pspawn[i].stage = 1
       THEN "bv" \in given /\ "crf" \notin given
       ELSE "crf" \in given /\ "bv" \notin given

\* C21 (as claimed): for a target bitrate b >= 1 every encoder invocation is
\* given bufsize 2*b and maxrate floor(1.5*b) in CRF mode, floor(1.2*b) in
\* bitrate mode
C21_RateControl ==
  pin.config.VideoBitrate >= 1 =>
    \A i \in DOMAIN pspawn :
      LET a == pspawn[i].args
          b == pin.config.VideoBitrate
      IN /\ a.bufsize = 2 * b
         /\ "crf" \in DOMAIN a => a.maxrate = (15 * b) \div 10
         /\ "bv" \in DOMAIN a => a.maxrate = (12 * b) \div 10

C23_VerifyOnlyWarns ==
  (pin.version = "main" /\ ppc = "done" /\ pexit = <<"ok", "ok">>) => pret = Nil

\* C23 witness: the output's duration was outside the tolerance and the call
\* returned nil
C23_Witness ==
  /\ pin.version = "main"
  /\ ppc = "done"
  /\ pexit = <<"ok", "ok">>
  /\ pverify = Err("duration", 0)
  /\ pret = Nil

\* C27 (as claimed): a call whose encoder process is running eventually
\* returns, with a failure if the process never exits
C27_HungEncoderReported ==
  (ppc \in {"stage1", "stage2"}) ~> (ppc = "done")

\* the tier the README promises for a batch size when no preset is configured
PromisedTier(batchSize) ==
  IF batchSize > 50 THEN "fast" ELSE IF batchSize >= 10 THEN "high" ELSE "ultra"

\* C30 (as claimed): with no qualityPreset configured the encoders get the
\* bundle of the tier chosen from the batch size: fast above 50, high from
\* 10 to 50, ultra below 10
C30_PresetFromBatchSize ==
  (pin.version = "ddd" /\ pin.preset = "") =>
    \A i \in DOMAIN pspawn :
      pspawn[i].bundle = getVideoQualityParams(PromisedTier(pin.batchSize),
                                               pin.config.VideoBitrate)

\* C33: when stage 2 fails the temporary file is removed, the file at the
\* output path stays exactly as the failing encoder left it, and the
\* pipeline returns an error
C33_Stage2FailureKeepsOutput ==
  (ppc = "done" /\ Len(pexit) = 2 /\ pexit[2] = "failed") =>
    /\ ~ptemp
    /\ pout.file = pout.left
    /\ pret = Err("encode", 2)

\* C33 witness: stage 2 failed after writing a partial output file, which is
\* still there when the pipeline has returned
C33_Witness ==
  /\ ppc = "done"
  /\ pexit = <<"ok", "failed">>
  /\ pout.left = "written"
  /\ pout.file = "written"
  /\ ~ptemp
  /\ pret = Err("encode", 2)

\* C35 (as claimed): the pipeline reports success only if the last encoder
\* exited with status zero and left a non-trivial file at the output path
C35_SuccessNeedsOutputFile ==
  (ppc = "done" /\ pret = Nil) =>
    (Len(pexit) = 2 /\ pexit[2] = "ok" /\ pout.file = "written")

\* C36 (as claimed): verifyOutputDuration warns exactly when the re-probed
\* duration differs from (end - start) / speed by more than 0.5 seconds
\* (durations in half seconds: |speed * actual - (end - start)| > speed)
C36_VerifyAgainstExpected ==
  (/\ pin.version = "main" /\ ppc = "done" /\ Len(pexit) = 2 /\ pexit[2] = "ok"
   /\ pout.actualDuration >= 0)
  => LET diff == pin.config.Speed * pout.actualDuration - (pwin.e - pwin.s)
     IN (pverify # Nil) <=> (diff > pin.config.Speed \/ diff < -pin.config.Speed)

RECURSIVE Product(_)
Product(q) == IF q = <<>> THEN 1 ELSE Head(q) * Product(Tail(q))

\* C34 (as claimed): the stage-1 video filter is scale-and-pad when the
\* target width differs from the target height and scale-and-crop when they
\* are equal, in both versions
C34_PadOrCropByShape ==
  \A i \in SpawnsOfStage(1) :
    pspawn[i].filters.vf =
      IF pin.config.Width # pin.config.Height
      THEN <<"scale", "pad">> ELSE <<"scale", "crop">>

\* C37 (as claimed): a speed above 2 is applied to the audio by a chain of
\* several tempo operations, each at most 2, whose product is the speed; a
\* speed of at most 2 by a single operation
C37_TempoChain ==
  \A i \in SpawnsOfStage(2) :
    LET af == pspawn[i].filters.af
    IN IF pin.config.Speed > 2
       THEN /\ Len(af) >= 2
            /\ \A k \in 1..Len(af) : af[k] <= 2
            /\ Product(af) = pin.config.Speed
       ELSE af = <<pin.config.Speed>>

\* ------------------------------------------------ claims on the batch run
Joined(v) == vtask[v].pc = "joined"
FailedTasks(v) == {j \in 1..NumVariants : ctask[v][j].err # Nil}
ResultErrors(v) == {i \in DOMAIN cresults[v] : cresults[v][i].error # Nil}
ResultSuccesses(v) == {i \in DOMAIN cresults[v] : cresults[v][i].error = Nil}
InFlightVideos == {v \in Videos : vtask[v].pc \in {"run", "joined"}}
RunningPipelines == {p \in Videos \X Variants : ctask[p[1]][p[2]].pc = "run"}

\* the claims' notion of a malformed variant: a non-positive width, height,
\* speed or clip length
Malformed(c) == c.Width <= 0 \/ c.Height <= 0 \/ c.Speed <= 0 \/ c.ClipDuration <= 0

\* C4: after the join of processVideoWithConcurrency, results has one entry
\* per variant, exactly as many entries with an error as variant tasks failed
\* (F), and the remaining K - F entries without one
C4_ResultsCountFailures ==
  \A v \in Videos : Joined(v) =>
    /\ Len(cresults[v]) = NumVariants
    /\ Cardinality(ResultErrors(v)) = Cardinality(FailedTasks(v))
    /\ Cardinality(ResultSuccesses(v)) = NumVariants - Cardinality(FailedTasks(v))

\* C4 witness: a joined video with K = 2 variants of which exactly one failed
C4_Witness ==
  \E v \in Videos :
    /\ Joined(v)
    /\ NumVariants = 2
    /\ ctask[v][1].err = Nil
    /\ ctask[v][2].err = Err("encode", 2)
    /\ cresults[v][2].error # Nil

\* C5: no variant task is started twice, and once a video's variants are
\* joined (concurrent scheduler) or its loop has ended (ProcessSingleVideo)
\* every configured variant has been started exactly once, whatever the
\* others returned
C5_EveryVariantStartedOnce ==
  /\ \A v \in Videos, j \in Variants : ctask[v][j].started <= 1
  /\ \A v \in Videos : Joined(v) => \A j \in 1..NumVariants : ctask[v][j].started = 1
  /\ \A j \in Variants : uc.attempts[j] <= 1
  /\ (uc.pc = "done" /\ uc.idx >= 1) =>
        \A j \in 1..Len(uc.configs) : uc.attempts[j] = 1

\* C5 witness: the first variant failed in the encoder and the second was
\* still started and succeeded
C5_Witness ==
  \E v \in Videos :
    /\ Joined(v)
    /\ NumVariants = 2
    /\ ctask[v][1].err = Err("encode", 1)
    /\ ctask[v][2].started = 1
    /\ ctask[v][2].err = Nil

\* C6 (as claimed): a malformed variant fails alone -- no encoder process is
\* spawned for it and every well-formed variant of the video is still
\* attempted -- in the variant task (ValidateConfig) and in the use case that
\* validates while loading (LoadProcessingConfigs / NewProcessingConfig)
C6_MalformedFailsAlone ==
  /\ \A v \in Videos : Joined(v) =>
        \A j \in 1..NumVariants :
          IF Malformed(cfg.VideoConfigs[j])
          THEN cresults[v][j].error # Nil /\ ctask[v][j].enc = 0
          ELSE ctask[v][j].started = 1
  /\ (uc.pc = "done" /\ uc.duration > 0) =>
        \A j \in 1..NumVariants :
          IF Malformed(cfg.VideoConfigs[j])
          THEN uc.enc[j] = 0
          ELSE uc.attempts[j] = 1

\* C7: no video is started twice, and when processVideosInBatches ends after
\* a walk without error every discovered video has been started exactly
\* once, whatever happened to the variants of the others
C7_EveryVideoStartedOnce ==
  /\ \A v \in Videos : vtask[v].started <= 1
  /\ mpc = "done" => \A v \in 1..counts.totalCount : vtask[v].started = 1

\* C7 witness: a run of several batches ended, some video had failing
\* variants, and every video was started
C7_Witness ==
  /\ mpc = "done"
  /\ warned
  /\ counts.totalCount = 5
  /\ Len(batchSizes) = 3
  /\ \A v \in 1..5 : vtask[v].started = 1

\* ceil(N/B) batches, all of size B except the last of size N - B*(ceil(N/B)-1)
ExpectedBatchSizes(N, B) ==
  LET nb == (N + B - 1) \div B
  IN [k \in 1..nb |-> IF k < nb THEN B ELSE N - B * (nb - 1)]

\* C8: for N discovered videos and batch size B >= 1, the processBatch calls
\* of a finished run have, in order, the sizes B, ..., B, N - B*(ceil(N/B)-1)
C8_BatchSizes ==
  (mpc = "done" /\ cfg.BatchSize >= 1) =>
    batchSizes = ExpectedBatchSizes(counts.totalCount, cfg.BatchSize)

\* C8 witness: 7 videos with batch size 3 were processed as 3, 3, 1
C8_Witness ==
  /\ mpc = "done"
  /\ cfg.BatchSize = 3
  /\ counts.totalCount = 7
  /\ batchSizes = <<3, 3, 1>>

\* C9: while a video task of a later batch exists, every video task of an
\* earlier batch and all its variant tasks have ended, and the groups of the
\* earlier batches are joined (no unit pending, no slot held)
C9_BatchesSequential ==
  /\ \A v, w \in Videos :
        (vtask[v].batch # 0 /\ vtask[w].batch > vtask[v].batch) =>
          /\ vtask[v].pc = "done"
          /\ \A j \in Variants : ctask[v][j].pc \in {"none", "done"}
  /\ \A b \in 1..(Len(bgrp) - 1) : bgrp[b].wg = 0 /\ bgrp[b].sem = 0

\* C9 witness: a pipeline of the second batch runs after the first batch of
\* two videos has ended
C9_Witness ==
  /\ Len(batchSizes) = 2
  /\ batchSizes[1] = 2
  /\ \E w \in Videos, j \in Variants : vtask[w].batch = 2 /\ ctask[w][j].pc = "run"
  /\ \A v \in 1..2 : vtask[v].pc = "done"

\* C10: with video ceiling V >= 1 and variant ceiling W >= 1, at most V videos
\* are in flight and at most V*W pipelines run, at every instant
C10_PeakConcurrency ==
  (cfg.MaxConcurrentVideos >= 1 /\ cfg.MaxConcurrentConfigs >= 1) =>
    /\ Cardinality(InFlightVideos) <= cfg.MaxConcurrentVideos
    /\ Cardinality(RunningPipelines) <= cfg.MaxConcurrentVideos * cfg.MaxConcurrentConfigs

\* C10 witness: V = 2 and W = 1 with batches of 3 videos of 2 variants: the
\* peak of V*W = 2 pipelines is reached while a video and variants wait
C10_Witness ==
  /\ cfg.MaxConcurrentVideos = 2
  /\ cfg.MaxConcurrentConfigs = 1
  /\ Cardinality(RunningPipelines) = 2
  /\ \E v \in Videos : vtask[v].pc = "select"
  /\ \E v \in Videos, j \in Variants : ctask[v][j].pc = "select"


\* results of both groups while their tasks run: the entry of a finished
\* task holds that task's outcome, the entry of any other task is untouched
ResultsInPlace ==
  /\ \A v \in Videos : vtask[v].pc \in {"run", "joined"} =>
       \A j \in 1..NumVariants :
         IF ctask[v][j].pc = "done"
         THEN cresults[v][j] = [index |-> j, error |-> ctask[v][j].err]
         ELSE cresults[v][j] = [index |-> 0, error |-> Nil]
  /\ \A v \in Videos : Joined(v) =>
       \A j \in 1..NumVariants : cresults[v][j].index = j
  /\ mpc = "batch" =>
       \A i \in 1..Len(bresults) :
         IF vtask[batch[i]].pc = "done"
         THEN bresults[i] = [path |-> batch[i],
                             error |-> ProcessVideoResult(vgrp[batch[i]].err)]
         ELSE bresults[i] = [path |-> 0, error |-> Nil]
  /\ (mpc = "batch" /\ WaitReady(bgrp[Len(bgrp)])) =>
       \A i \in 1..Len(bresults) : bresults[i].path = batch[i]

\* a step never changes an entry that has been written
WrittenOnce ==
  /\ \A v \in Videos : \A j \in (DOMAIN cresults[v]) \cap (DOMAIN cresults'[v]) :
       cresults[v][j].index # 0 => cresults'[v][j] = cresults[v][j]
  /\ \A i \in (DOMAIN bresults) \cap (DOMAIN bresults') :
       bresults[i].path # 0 => bresults'[i] = bresults[i]

\* the steps that read the results (the hasErrors loop, the counting loop)
\* are taken only after the join of the group that fills them
ReadAfterJoin ==
  /\ warned' # warned => \E v \in Videos : Joined(v) /\ vtask'[v].pc = "done"
  /\ (counts'.successCount # counts.successCount
        \/ counts'.errorCount # counts.errorCount) =>
       (mpc = "batch" /\ bgrp[Len(bgrp)].wg = 0)

\* C32: in processVideoWithConcurrency and in processBatch, results[i] holds
\* the outcome of the i-th submitted unit whatever the order of completion,
\* every entry is written once, and no entry is read before the join
C32_ResultsBySubmissionOrder ==
  []ResultsInPlace /\ [][WrittenOnce /\ ReadAfterJoin]_vars

\* C32 witness: the second variant of a video has finished and is recorded at
\* index 2 while the first, submitted before it, is still running
C32_Witness ==
  \E v \in Videos :
    /\ vtask[v].pc = "run"
    /\ NumVariants = 2
    /\ ctask[v][1].pc = "run"
    /\ ctask[v][2].pc = "done"
    /\ cresults[v][2] = [index |-> 2, error |-> Err("encode", 1)]
    /\ cresults[v][1].index = 0

\* C40: when a run ends after a walk without error, every discovered video
\* belongs to exactly one batch and was started exactly once, the batches
\* hold as many videos as their processBatch calls were given (the final
\* partial batch included), and totalCount = successCount + errorCount
C40_EveryVideoInOneBatch ==
  mpc = "done" =>
    /\ \A v \in 1..counts.totalCount :
         vtask[v].started = 1 /\ vtask[v].batch \in 1..Len(batchSizes)
    /\ \A k \in 1..Len(batchSizes) :
         Cardinality({v \in 1..counts.totalCount : vtask[v].batch = k}) = batchSizes[k]
    /\ counts.totalCount = counts.successCount + counts.errorCount

\* C40 witness: five videos with batch size 2 ended as batches of 2, 2 and a
\* final partial batch of 1, all counted
C40_Witness ==
  /\ mpc = "done"
  /\ cfg.BatchSize = 2
  /\ counts.totalCount = 5
  /\ batchSizes = <<2, 2, 1>>
  /\ vtask[5].batch = 3 /\ vtask[5].started = 1
  /\ counts.successCount + counts.errorCount = 5

\* every video task and every variant task that exists has finished
AllTasksFinished ==
  /\ \A v \in Videos : vtask[v].pc \in {"none", "done"}
  /\ \A v \in Videos, j \in Variants : ctask[v][j].pc \in {"none", "done"}

\* C39: with both ceilings at least 1 the run always comes to its end, with
\* every video task and variant task finished and every Wait returned
C39_NestedSchedulingTerminates ==
  (cfg.MaxConcurrentVideos >= 1 /\ cfg.MaxConcurrentConfigs >= 1)
    ~> (mpc \in {"done", "noffmpeg", "noinput", "mkdirfailed", "walkfailed"}
        /\ AllTasksFinished)

\* C39 witness: with both ceilings 1, a video task holds the only video slot
\* and waits for its variant group, in which one variant runs and one waits,
\* while another video of the batch waits for the video slot
C39_Witness ==
  /\ cfg.MaxConcurrentVideos = 1
  /\ cfg.MaxConcurrentConfigs = 1
  /\ \E v, w \in Videos :
       /\ vtask[v].pc = "run"
       /\ vtask[w].pc = "select"
       /\ ctask[v][1].pc = "run"
       /\ ctask[v][2].pc = "select"

\* how a run of main can have ended, and the endings that report an error
RunEnded == mpc \in {"done", "noffmpeg", "noinput", "mkdirfailed", "walkfailed"}
RunFailed == RunEnded /\ mpc # "done"

\* C24 (as claimed): the run ends with an error only when ffmpeg is missing
\* or the input directory does not exist; in every other ending each
\* discovered video has been started
C24_OnlyTwoFatalConditions ==
  /\ RunFailed => mpc \in {"noffmpeg", "noinput"}
  /\ (RunEnded /\ mpc \notin {"noffmpeg", "noinput"}) =>
       \A v \in 1..counts.totalCount : vtask[v].started = 1

\* C25 (as claimed): videos all of whose variant tasks failed are counted as
\* failed; when every configured variant is rejected by ValidateConfig this
\* is every video of the run
C25_FailedVideosCounted ==
  (/\ mpc = "done"
   /\ counts.totalCount >= 1
   /\ NumVariants >= 1
   /\ \A j \in 1..NumVariants : ValidateConfig(cfg.VideoConfigs[j]) # Nil)
  => (counts.errorCount = counts.totalCount /\ counts.successCount = 0)

\* C28 (as claimed): with batchSize, maxConcurrentVideos and
\* maxConcurrentConfigs all 0 the run goes on until it has ended: it is never
\* in a state where it has not ended and no step is possible
C28_ZeroLimitsTerminate ==
  (/\ program = "main"
   /\ cfg.BatchSize = 0
   /\ cfg.MaxConcurrentVideos = 0
   /\ cfg.MaxConcurrentConfigs = 0)
  => (RunEnded \/ ENABLED MainNext)

\* ------------------------------------------ errgroup.go: a group on its own

Units == 1..MaxUnits

HInit ==
  /\ program = "group"
  /\ SIdle
  /\ PIdle
  /\ TIdle
  /\ \E limit \in 0..MaxLimit : hg = NewLimitedGroup(limit)
  /\ hunit = [i \in Units |-> [pc |-> "none", ret |-> Nil]]
  /\ hn = 0
  /\ hpc = "submit"
  /\ hret = Nil
  /\ hfret = [i \in Units |-> "none"]
  /\ horder = <<>>

\* LimitedGroup.Go(f): wg.Add(1) and start the goroutine, which waits in select
HGo ==
  /\ hpc = "submit"
  /\ hn < MaxUnits
  /\ hn' = hn + 1
  /\ hg' = GroupAdd(hg)
  /\ hunit' = [hunit EXCEPT ![hn + 1].pc = "select"]
  /\ UNCHANGED <<tvars, svars, pvars, hpc, hret, hfret, horder>>

\* select case lg.sem <- struct{}{}: the unit takes a slot and enters f
HAcquire(i) ==
  /\ hunit[i].pc = "select"
  /\ CanAcquire(hg)
  /\ hg' = Acquire(hg)
  /\ hunit' = [hunit EXCEPT ![i].pc = "run"]
  /\ UNCHANGED <<tvars, svars, pvars, hn, hpc, hret, hfret, horder>>

\* select case <-lg.ctx.Done(): return lg.ctx.Err() without running f
HSkip(i) ==
  /\ hunit[i].pc = "select"
  /\ CtxDone(hg)
  /\ hunit' = [hunit EXCEPT ![i].pc = "ret", ![i].ret = Canceled]
  /\ UNCHANGED <<tvars, svars, pvars, hg, hn, hpc, hret, hfret, horder>>

\* f returns nil or its own error; the deferred receive frees the slot
HReturn(i) ==
  /\ hunit[i].pc = "run"
  /\ \E e \in {Nil, UnitError(i)} :
       /\ hunit' = [hunit EXCEPT ![i].pc = "ret", ![i].ret = e]
       /\ hfret' = [hfret EXCEPT ![i] = IF e = Nil THEN "ok" ELSE "error"]
  /\ hg' = Release(hg)
  /\ UNCHANGED <<tvars, svars, pvars, hn, hpc, hret, horder>>

\* the goroutine of Group.Go: errOnce.Do on a non-nil error, then wg.Done()
HFinish(i) ==
  /\ hunit[i].pc = "ret"
  /\ hg' = GroupDone(Capture(hg, hunit[i].ret))
  /\ horder' = IF hunit[i].ret # Nil THEN Append(horder, hunit[i].ret) ELSE horder
  /\ hunit' = [hunit EXCEPT ![i].pc = "done"]
  /\ UNCHANGED <<tvars, svars, pvars, hn, hpc, hret, hfret>>

\* the caller stops submitting and calls LimitedGroup.Wait, which blocks
HWaitCall ==
  /\ hpc = "submit"
  /\ hpc' = "wait"
  /\ UNCHANGED <<tvars, svars, pvars, hg, hunit, hn, hret, hfret, horder>>

\* Group.Wait: wg.Wait() is over, cancel, return g.err
HWaitReturn ==
  /\ hpc = "wait"
  /\ WaitReady(hg)
  /\ hpc' = "returned"
  /\ hret' = hg.err
  /\ hg' = WaitCancel(hg)
  /\ UNCHANGED <<tvars, svars, pvars, hunit, hn, hfret, horder>>

HNext ==
  \/ HGo
  \/ \E i \in Units : HAcquire(i)
  \/ \E i \in Units : HSkip(i)
  \/ \E i \in Units : HReturn(i)
  \/ \E i \in Units : HFinish(i)
  \/ HWaitCall
  \/ HWaitReturn

SpecGroup == HInit /\ [][HNext]_vars

HRunning == {i \in Units : hunit[i].pc = "run"}
HSubmitted == 1..hn

\* C1: with a ceiling of at least 1, the number of units executing their work
\* function never exceeds the ceiling
C1_AtMostLimitRunning ==
  hg.limit >= 1 => Cardinality(HRunning) <= hg.limit

\* C1 witness: the ceiling is reached while another unit waits for a slot
C1_Witness ==
  /\ hg.limit = 2
  /\ Cardinality(HRunning) = 2
  /\ \E i \in Units : hunit[i].pc = "select"

\* C2: when Wait has returned, every submitted unit has finished (its work
\* function returned or it was skipped on cancellation) and none is executing
C2_WaitAfterAllFinished ==
  hpc = "returned" =>
    /\ \A i \in HSubmitted : hunit[i].pc = "done"
    /\ HRunning = {}

\* C2 witness: Wait returned after one unit ran and another was skipped
C2_Witness ==
  /\ hpc = "returned"
  /\ \E i, j \in HSubmitted : hfret[i] = "error" /\ hfret[j] = "none"

\* C3: Wait returns nil exactly when no work function returned an error;
\* otherwise it returns the first error handed to errOnce, which is a unit's
\* own error and is never replaced by later errors or cancellation errors
C3_FirstErrorKept ==
  hpc = "returned" =>
    /\ (hret = Nil <=> \A i \in HSubmitted : hfret[i] # "error")
    /\ (horder # <<>> => hret = horder[1] /\ hret.kind = "unit")

\* C3 witness: Wait returned the first of several captured errors, with a
\* later unit error and a cancellation error behind it
C3_Witness ==
  /\ hpc = "returned"
  /\ Len(horder) >= 3
  /\ \E k \in 2..Len(horder) : horder[k] = Canceled
  /\ \E k \in 2..Len(horder) : horder[k].kind = "unit"
  /\ hret = horder[1]

\* C31 (as claimed): once an error has been captured and the context is
\* cancelled, a unit still waiting in its select never enters its work function
C31_NoStartAfterCancel ==
  [][\A i \in Units :
       (hg.errOnce /\ hg.cancelled /\ hunit[i].pc = "select")
         => hunit'[i].pc # "run"]_vars

\* C38: the tokens in the semaphore are exactly the units executing their work
\* function, whatever those functions return, and none is left once Wait has
\* returned
C38_SlotAccounting ==
  /\ hg.sem = Cardinality(HRunning)
  /\ hpc = "returned" => hg.sem = 0

\* C38 witness: Wait has returned after units took slots and one of them failed
C38_Witness ==
  /\ hpc = "returned"
  /\ hg.sem = 0
  /\ \E i, j \in HSubmitted : hfret[i] = "error" /\ hfret[j] = "ok"

\* ------------------------------ main.go: output and temporary file paths

\* A path is its directory elements and the pieces of its file name; the last
\* piece is the extension.  No piece is a prefix of another, so two paths are
\* the same string exactly when they are the same sequences.
NoPath == [dirs |-> <<>>, file |-> <<>>]

\* filepath.Join: empty elements are dropped
Join(elems) == SelectSeq(elems, LAMBDA e : e # "")

\* DefaultPathGenerator.GenerateOutputPath: name + OutputSuffix + ext under
\* outputDir/OutputFolder, keeping the directory relative to inputDir
GenerateOutputPath(inputPath, config) ==
  LET newFilename == inputPath.name \o config.OutputSuffix \o <<inputPath.ext>>
  IN  IF inputPath.dir = "."
      THEN [dirs |-> Join(<<"out", config.OutputFolder>>), file |-> newFilename]
      ELSE [dirs |-> Join(<<"out", config.OutputFolder, inputPath.dir>>),
            file |-> newFilename]

\* generateTempPath: TrimSuffix(outputPath, ext) + "_temp" + ext
generateTempPath(outputPath) ==
  [outputPath EXCEPT
     !.file = SubSeq(@, 1, Len(@) - 1) \o <<"_temp">> \o <<@[Len(@)]>>]

\* the video files a walk can find under inputDir, relative to it
PathVideoPool ==
  { [dir |-> ".", name |-> <<"a">>, ext |-> ".mp4"],
    [dir |-> ".", name |-> <<"a", "_temp">>, ext |-> ".mp4"],
    [dir |-> "v1", name |-> <<"a">>, ext |-> ".mp4"] }

\* variants as a configuration file can list them
PathVariantPool ==
  { GoodVariant @@ [OutputFolder |-> "v1", OutputSuffix |-> x] :
      x \in {<<>>, <<"_x">>, <<"_x", "_temp">>} }
  \cup { GoodVariant @@ [OutputFolder |-> "", OutputSuffix |-> <<>>] }
  \cup { [GoodVariant EXCEPT !.Width = 0] @@
           [OutputFolder |-> "v1", OutputSuffix |-> <<"_x">>] }

PathTasks == tin.videos \X (1..Len(tin.configs))

PathsInit ==
  /\ program = "paths"
  /\ SIdle
  /\ HIdle
  /\ PIdle
  /\ \E vs \in SUBSET PathVideoPool, cs \in SeqsUpTo(PathVariantPool, MaxVariants),
        mv \in 1..MaxCeiling, mc \in 1..MaxCeiling :
       /\ Cardinality(vs) \in 1..MaxPathVideos
       /\ Len(cs) >= 1
       /\ tin = [videos |-> vs, configs |-> cs,
                 MaxConcurrentVideos |-> mv, MaxConcurrentConfigs |-> mc]
       /\ tvgrp = [NewLimitedGroup(mv) EXCEPT !.wg = Cardinality(vs)]
       /\ tcgrp = [v \in vs |-> NewLimitedGroup(0)]
       /\ tvideo = [v \in vs |-> "select"]
       /\ ttask = [t \in vs \X (1..Len(cs)) |->
                     [pc |-> "none", outputPath |-> NoPath, tempPath |-> NoPath,
                      ret |-> Nil]]

\* processBatch: the goroutine of a video takes a slot and ProcessVideo calls
\* processVideoWithConcurrency, which makes a group and submits every variant
TVideoStart(v) ==
  /\ v \in tin.videos
  /\ tvideo[v] = "select"
  /\ CanAcquire(tvgrp)
  /\ tvgrp' = Acquire(tvgrp)
  /\ tvideo' = [tvideo EXCEPT ![v] = "run"]
  /\ tcgrp' = [tcgrp EXCEPT ![v] =
                 [NewLimitedGroup(tin.MaxConcurrentConfigs) EXCEPT
                    !.wg = Len(tin.configs)]]
  /\ ttask' = [t \in PathTasks |->
                 IF t[1] = v THEN [ttask[t] EXCEPT !.pc = "select"] ELSE ttask[t]]
  /\ UNCHANGED <<hvars, svars, pvars, tin>>

\* the variant closure takes a slot; a rejected variant returns at once, and so
\* does one whose duration probe, window, output path or output directory
\* fails; any other reaches clipVideoSegment with its output and temporary paths
TVariantStart(v, j) ==
  /\ <<v, j>> \in PathTasks
  /\ ttask[<<v, j>>].pc = "select"
  /\ CanAcquire(tcgrp[v])
  /\ IF ValidateConfig(tin.configs[j]) # Nil
     THEN /\ ttask' = [ttask EXCEPT ![<<v, j>>].pc = "done",
                                    ![<<v, j>>].ret = ValidateConfig(tin.configs[j])]
          /\ tcgrp' = [tcgrp EXCEPT ![v] = GroupDone(@)]
     ELSE \E prepared \in BOOLEAN :
            IF ~prepared
            THEN /\ ttask' = [ttask EXCEPT ![<<v, j>>].pc = "done",
                                           ![<<v, j>>].ret = Err("prepare", 0)]
                 /\ tcgrp' = [tcgrp EXCEPT ![v] = GroupDone(@)]
            ELSE LET outputPath == GenerateOutputPath(v, tin.configs[j])
                 IN  /\ ttask' = [ttask EXCEPT ![<<v, j>>] =
                                    [pc |-> "stage1", outputPath |-> outputPath,
                                     tempPath |-> generateTempPath(outputPath),
                                     ret |-> Nil]]
                     /\ tcgrp' = [tcgrp EXCEPT ![v] = Acquire(@)]
  /\ UNCHANGED <<hvars, svars, pvars, tin, tvgrp, tvideo>>

\* clipAndScale returns: on success applySpeed starts, on failure the task ends
TStage1Exit(v, j) ==
  /\ <<v, j>> \in PathTasks
  /\ ttask[<<v, j>>].pc = "stage1"
  /\ \E ok \in BOOLEAN :
       IF ok
       THEN /\ ttask' = [ttask EXCEPT ![<<v, j>>].pc = "stage2"]
            /\ UNCHANGED tcgrp
       ELSE /\ ttask' = [ttask EXCEPT ![<<v, j>>].pc = "done",
                                      ![<<v, j>>].ret = Err("encode", 1)]
            /\ tcgrp' = [tcgrp EXCEPT ![v] = GroupDone(Release(@))]
  /\ UNCHANGED <<hvars, svars, pvars, tin, tvgrp, tvideo>>

\* applySpeed returns; the deferred os.Remove(tempPath) runs and the slot is freed
TStage2Exit(v, j) ==
  /\ <<v, j>> \in PathTasks
  /\ ttask[<<v, j>>].pc = "stage2"
  /\ \E ok \in BOOLEAN :
       ttask' = [ttask EXCEPT ![<<v, j>>].pc = "done",
                              ![<<v, j>>].ret = IF ok THEN Nil ELSE Err("encode", 2)]
  /\ tcgrp' = [tcgrp EXCEPT ![v] = GroupDone(Release(@))]
  /\ UNCHANGED <<hvars, svars, pvars, tin, tvgrp, tvideo>>

\* g.Wait() of processVideoWithConcurrency returns; the video frees its slot
TVideoJoin(v) ==
  /\ v \in tin.videos
  /\ tvideo[v] = "run"
  /\ WaitReady(tcgrp[v])
  /\ tvideo' = [tvideo EXCEPT ![v] = "done"]
  /\ tvgrp' = GroupDone(Release(tvgrp))
  /\ UNCHANGED <<hvars, svars, pvars, tin, tcgrp, ttask>>

PathsNext ==
  \/ \E v \in PathVideoPool : TVideoStart(v)
  \/ \E v \in PathVideoPool, j \in 1..MaxVariants : TVariantStart(v, j)
  \/ \E v \in PathVideoPool, j \in 1..MaxVariants : TStage1Exit(v, j)
  \/ \E v \in PathVideoPool, j \in 1..MaxVariants : TStage2Exit(v, j)
  \/ \E v \in PathVideoPool : TVideoJoin(v)

SpecPaths == PathsInit /\ [][PathsNext]_vars

\* the tasks inside clipVideoSegment: their encoder stages are running
RunningPathTasks == {t \in PathTasks : ttask[t].pc \in {"stage1", "stage2"}}

\* C26: when every listed variant passes validation, no two running tasks
\* have the same temporary path and no running task's temporary path is the
\* output path of another running task
C26_TempPathsOwned ==
  (\A j \in 1..Len(tin.configs) : ValidateConfig(tin.configs[j]) = Nil) =>
    \A t, u \in RunningPathTasks :
      t # u => /\ ttask[t].tempPath # ttask[u].tempPath
               /\ ttask[t].tempPath # ttask[u].outputPath

\* ------------------------------------- errgroup.go: a group made by WithLimit

\* WithLimit(ctx, limit): context.WithCancel, then &Group{cancel: cancel}; the
\* group has no semaphore, the limit field only remembers the argument
WithLimit(limit) ==
  [limit |-> limit, sem |-> 0, cancelled |-> FALSE,
   errOnce |-> FALSE, err |-> Nil, wg |-> 0]

WithLimitInit ==
  /\ program = "withlimit"
  /\ SIdle
  /\ PIdle
  /\ TIdle
  /\ \E limit \in 0..MaxLimit : hg = WithLimit(limit)
  /\ hunit = [i \in Units |-> [pc |-> "none", ret |-> Nil]]
  /\ hn = 0
  /\ hpc = "submit"
  /\ hret = Nil
  /\ hfret = [i \in Units |-> "none"]
  /\ horder = <<>>

\* Group.Go(f): wg.Add(1) and go func() { ... f() ... }: f starts at once
GroupGo ==
  /\ hpc = "submit"
  /\ hn < MaxUnits
  /\ hn' = hn + 1
  /\ hg' = GroupAdd(hg)
  /\ hunit' = [hunit EXCEPT ![hn + 1].pc = "run"]
  /\ UNCHANGED <<tvars, svars, pvars, hpc, hret, hfret, horder>>

\* err := f(): f returns nil or its own error
GroupReturn(i) ==
  /\ hunit[i].pc = "run"
  /\ \E e \in {Nil, UnitError(i)} :
       /\ hunit' = [hunit EXCEPT ![i].pc = "ret", ![i].ret = e]
       /\ hfret' = [hfret EXCEPT ![i] = IF e = Nil THEN "ok" ELSE "error"]
  /\ UNCHANGED <<tvars, svars, pvars, hg, hn, hpc, hret, horder>>

WithLimitNext ==
  \/ GroupGo
  \/ \E i \in Units : GroupReturn(i)
  \/ \E i \in Units : HFinish(i)
  \/ HWaitCall
  \/ HWaitReturn

SpecWithLimit == WithLimitInit /\ [][WithLimitNext]_vars

\* C29: for a limit of at least 1, at most limit functions started through
\* the group returned by WithLimit execute at the same time
C29_WithLimitBoundsRunning ==
  (program = "withlimit" /\ hg.limit >= 1) =>
    Cardinality(HRunning) <= hg.limit

====
